---- MODULE Spec2Model ----
(***************************************************************************)
(* Model of src/components/VisionController.tsx: the loading lifecycle     *)
(* (startExperience, initVision, handleFileUpload, startCamera), the frame *)
(* loop (predictWebcam) and the effect cleanup.                            *)
(*                                                                         *)
(* JavaScript runs each continuation to its next await without             *)
(* interleaving, so there is one action per continuation: the code from    *)
(* one await (or event) to the next.                                       *)
(***************************************************************************)
EXTENDS Integers, Sequences, FiniteSets, TLC

\* ---------------------------------------------------------------- bounds
\* manual file selections modelled per session
MaxManual == 2
\* largest media timestamp the video sink reaches
MaxTime == 1
\* runs of the effect cleanup modelled in succession
MaxTeardown == 2
\* saturation of the per-timestamp inference counter
MaxCount == 2
\* saturation of the count of skipped predictWebcam calls
MaxStall == 2

VARIABLES
    \* ---- React state (useState, lines 25-28)
    isStarted, status, errorMessage, showManualUpload,
    \* ---- refs (lines 19-22)
    videoRefCurrent,   \* videoRef.current is non-null
    lastVideoTime,     \* lastVideoTime.current
    pendingRef,        \* the callback whose id is in requestRef.current is still scheduled
    landmarker,        \* landmarkerRef.current: "null", "auto" or "manual"
    \* ---- scheduled animation-frame callbacks whose id is no longer in requestRef
    pendingOther,
    \* ---- the <video> element
    srcObject,         \* "none", "live" (tracks running) or "stopped"
    listeners,         \* number of loadeddata listeners registered
    dataPending,       \* the element will fire loadeddata for its current stream
    currentTime,       \* video.currentTime
    \* ---- camera hardware
    orphanLive,        \* live streams no longer (or never) referenced by srcObject
    mediaSupported,    \* navigator.mediaDevices.getUserMedia exists
    \* ---- continuations in flight
    autoPc,            \* initVision: "idle", "awaitWasm", "awaitModel", "done"
    timer,             \* the 3000 ms timeout: "unset", "armed", "fired", "cleared"
    manualWasm,        \* handleFileUpload calls awaiting FilesetResolver
    manualModel,       \* handleFileUpload calls awaiting createFromOptions
    camPending,        \* getUserMedia calls awaiting the permission decision
    \* ---- observation (history) variables
    stepWrites,        \* the setStatus calls of the last step, in order
    cleanupRun,        \* effect cleanups run in succession, ending with the last step
    cleanupError,      \* a run of the effect cleanup threw
    manualStarted,     \* handleFileUpload calls that started a load
    cameraRequests,    \* getUserMedia calls issued
    streamsAcquired,   \* getUserMedia calls granted
    enginesCreated,    \* createFromOptions calls that succeeded
    inferCount,        \* timestamp -> number of detectForVideo calls (saturating)
    observed,          \* timestamps read by a tick at line 145
    tornDown,          \* the effect cleanup has run
    dupObserved,       \* a tick read the timestamp the previous tick recorded
    stalled,           \* predictWebcam calls that skipped inference since the last one that inferred (saturating)
    cameraDenied,      \* a getUserMedia call was rejected
    autoAttempts,      \* automatic createFromOptions calls started
    \* ---- processLandmarks (lines 155-199)
    result,            \* the detection result last handed to processLandmarks
    signal,            \* the HandState last passed to onUpdate
    seenPresent,       \* an earlier result held a hand
    autoOkBeforeTimer, \* createFromOptions resolved while the timer was armed
    timerFiredPending, \* the timer fired while createFromOptions was pending
    autoFailedAfterTimer \* ... and createFromOptions then failed

loopVars == << isStarted, status, errorMessage, showManualUpload, videoRefCurrent,
           lastVideoTime, pendingRef, landmarker, pendingOther, srcObject,
           listeners, dataPending, currentTime, orphanLive, mediaSupported,
           autoPc, timer, manualWasm, manualModel, camPending, stepWrites,
           cleanupRun, cleanupError, manualStarted, cameraRequests, streamsAcquired,
           enginesCreated, inferCount, observed, tornDown, dupObserved,
           autoOkBeforeTimer, timerFiredPending, autoFailedAfterTimer,
           stalled, cameraDenied, autoAttempts >>

classVars == << result, signal, seenPresent >>

vars == << loopVars, classVars >>

\* groups left alone by most actions
uiVars    == << isStarted, showManualUpload >>
frameVars == << lastVideoTime, pendingRef, pendingOther, inferCount, observed,
               dupObserved, stalled >>
videoVars == << srcObject, listeners, dataPending, orphanLive, streamsAcquired >>
envVars   == << videoRefCurrent, mediaSupported, currentTime >>
loadVars  == << autoPc, timer, manualWasm, manualModel, manualStarted >>
histVars  == << tornDown, cleanupError, autoOkBeforeTimer, timerFiredPending,
                autoFailedAfterTimer >>
obsVars   == << cameraDenied, autoAttempts >>

Statuses == { "", "initializing", "loading_wasm", "loading_model",
              "waiting_for_file", "loading_model_manual",
              "requesting_camera", "ready", "error" }

Times == 0 .. MaxTime

\* No HandState has been passed to onUpdate yet.
NoSignal == [ gesture |-> "UNSET", rotX |-> 0, rotY |-> 0,
              pinchDistance |-> 0, isPresent |-> FALSE ]

\* The component is rendered and its cleanup has not run: the user can
\* reach the start button and the file input.
Mounted == videoRefCurrent /\ ~tornDown

Init ==
    /\ isStarted = FALSE
    /\ status = ""
    /\ errorMessage = ""
    /\ showManualUpload = FALSE
    /\ videoRefCurrent = TRUE
    /\ lastVideoTime = -1
    /\ pendingRef = FALSE
    /\ landmarker = "null"
    /\ pendingOther = 0
    /\ srcObject = "none"
    /\ listeners = 0
    /\ dataPending = FALSE
    /\ currentTime = 0
    /\ orphanLive = 0
    /\ mediaSupported \in BOOLEAN
    /\ autoPc = "idle"
    /\ timer = "unset"
    /\ manualWasm = 0
    /\ manualModel = 0
    /\ camPending = 0
    /\ stepWrites = << >>
    /\ cleanupRun = 0
    /\ cleanupError = FALSE
    /\ manualStarted = 0
    /\ cameraRequests = 0
    /\ streamsAcquired = 0
    /\ enginesCreated = 0
    /\ inferCount = [t \in Times |-> 0]
    /\ observed = {}
    /\ tornDown = FALSE
    /\ dupObserved = FALSE
    /\ stalled = 0
    /\ cameraDenied = FALSE
    /\ autoAttempts = 0
    /\ result = [landmarks |-> << >>]
    /\ signal = NoSignal
    /\ seenPresent = FALSE
    /\ autoOkBeforeTimer = FALSE
    /\ timerFiredPending = FALSE
    /\ autoFailedAfterTimer = FALSE

\* ------------------------------------------------------------ startCamera
\* The synchronous part of startCamera (lines 112-126), called after the
\* writes `before`: sets the status, tests for getUserMedia and either fails
\* or issues the request.
StartCamera(before) ==
    IF ~mediaSupported
    THEN /\ stepWrites' = before \o << "requesting_camera", "error" >>
         /\ status' = "error"
         /\ errorMessage' = "camera_unsupported"
         /\ UNCHANGED << camPending, cameraRequests >>
    ELSE /\ stepWrites' = before \o << "requesting_camera" >>
         /\ status' = "requesting_camera"
         /\ camPending' = camPending + 1
         /\ cameraRequests' = cameraRequests + 1
         /\ UNCHANGED errorMessage

\* --------------------------------------------------------- startExperience
\* lines 31-46: the click handler runs into initVision up to its first await.
StartExperience ==
    /\ Mounted
    /\ ~isStarted
    /\ isStarted' = TRUE
    /\ status' = "loading_wasm"
    /\ stepWrites' = << "initializing", "loading_wasm" >>
    /\ autoPc' = "awaitWasm"
    /\ cleanupRun' = 0
    /\ UNCHANGED classVars
    /\ UNCHANGED obsVars
    /\ UNCHANGED << errorMessage, showManualUpload, landmarker, camPending,
                    cameraRequests, enginesCreated, timer, manualWasm,
                    manualModel, manualStarted >>
    /\ UNCHANGED << frameVars, videoVars, envVars, histVars >>

\* -------------------------------------------------------------- initVision
\* lines 46-59: FilesetResolver resolved; the timer is armed and the engine
\* creation starts.
WasmOk ==
    /\ autoPc = "awaitWasm"
    /\ autoPc' = "awaitModel"
    /\ status' = "loading_model"
    /\ stepWrites' = << "loading_model" >>
    /\ timer' = "armed"
    /\ cleanupRun' = 0
    /\ UNCHANGED classVars
    /\ autoAttempts' = autoAttempts + 1
    /\ UNCHANGED cameraDenied
    /\ UNCHANGED << errorMessage, landmarker, camPending, cameraRequests,
                    enginesCreated, manualWasm, manualModel, manualStarted >>
    /\ UNCHANGED << uiVars, frameVars, videoVars, envVars, histVars >>

\* Variant of WasmFail that falls back to the manual upload, as the model
\* download does, instead of ending in error.
WasmFail_Fallback ==
    /\ autoPc = "awaitWasm"
    /\ autoPc' = "done"
    /\ status' = "waiting_for_file"
    /\ stepWrites' = << "waiting_for_file" >>
    /\ errorMessage' = "init_failed"
    /\ showManualUpload' = TRUE
    /\ cleanupRun' = 0
    /\ UNCHANGED classVars
    /\ UNCHANGED obsVars
    /\ UNCHANGED << isStarted, landmarker, camPending, cameraRequests,
                    enginesCreated, timer, manualWasm, manualModel,
                    manualStarted >>
    /\ UNCHANGED << frameVars, videoVars, envVars, histVars >>

\* lines 78-82: FilesetResolver rejected.
WasmFail ==
    /\ autoPc = "awaitWasm"
    /\ autoPc' = "done"
    /\ status' = "error"
    /\ stepWrites' = << "error" >>
    /\ errorMessage' = "init_failed"
    /\ cleanupRun' = 0
    /\ UNCHANGED classVars
    /\ UNCHANGED obsVars
    /\ UNCHANGED << landmarker, camPending, cameraRequests, enginesCreated,
                    timer, manualWasm, manualModel, manualStarted >>
    /\ UNCHANGED << uiVars, frameVars, videoVars, envVars, histVars >>

\* Variant of the timeout callback that also abandons the pending automatic
\* attempt.
TimerFire_Cancel ==
    /\ timer = "armed"
    /\ timer' = "fired"
    /\ autoPc' = "done"
    /\ showManualUpload' = IF landmarker = "null" THEN TRUE ELSE showManualUpload
    /\ timerFiredPending' = (timerFiredPending \/ autoPc = "awaitModel")
    /\ stepWrites' = << >>
    /\ cleanupRun' = 0
    /\ UNCHANGED classVars
    /\ UNCHANGED obsVars
    /\ UNCHANGED << isStarted, status, errorMessage, landmarker, camPending,
                    cameraRequests, enginesCreated, manualWasm,
                    manualModel, manualStarted, tornDown, cleanupError,
                    autoOkBeforeTimer, autoFailedAfterTimer >>
    /\ UNCHANGED << frameVars, videoVars, envVars >>

\* lines 52-56: the timeout callback.
TimerFire ==
    /\ timer = "armed"
    /\ timer' = "fired"
    /\ showManualUpload' = IF landmarker = "null" THEN TRUE ELSE showManualUpload
    /\ timerFiredPending' = (timerFiredPending \/ autoPc = "awaitModel")
    /\ stepWrites' = << >>
    /\ cleanupRun' = 0
    /\ UNCHANGED classVars
    /\ UNCHANGED obsVars
    /\ UNCHANGED << isStarted, status, errorMessage, landmarker, camPending,
                    cameraRequests, enginesCreated, autoPc, manualWasm,
                    manualModel, manualStarted, tornDown, cleanupError,
                    autoOkBeforeTimer, autoFailedAfterTimer >>
    /\ UNCHANGED << frameVars, videoVars, envVars >>

\* Variant of AutoModelOk that forgets clearTimeout (line 67).
AutoModelOk_NoClear ==
    /\ autoPc = "awaitModel"
    /\ autoPc' = "done"
    /\ timer' = timer
    /\ autoOkBeforeTimer' = (autoOkBeforeTimer \/ timer = "armed")
    /\ landmarker' = "auto"
    /\ enginesCreated' = enginesCreated + 1
    /\ StartCamera(<< >>)
    /\ cleanupRun' = 0
    /\ UNCHANGED classVars
    /\ UNCHANGED obsVars
    /\ UNCHANGED << manualWasm, manualModel, manualStarted, tornDown,
                    cleanupError, timerFiredPending, autoFailedAfterTimer >>
    /\ UNCHANGED << uiVars, frameVars, videoVars, envVars >>

\* lines 59-69: createFromOptions resolved.
AutoModelOk ==
    /\ autoPc = "awaitModel"
    /\ autoPc' = "done"
    /\ timer' = IF timer = "armed" THEN "cleared" ELSE timer
    /\ autoOkBeforeTimer' = (autoOkBeforeTimer \/ timer = "armed")
    /\ landmarker' = "auto"
    /\ enginesCreated' = enginesCreated + 1
    /\ StartCamera(<< >>)
    /\ cleanupRun' = 0
    /\ UNCHANGED classVars
    /\ UNCHANGED obsVars
    /\ UNCHANGED << manualWasm, manualModel, manualStarted, tornDown,
                    cleanupError, timerFiredPending, autoFailedAfterTimer >>
    /\ UNCHANGED << uiVars, frameVars, videoVars, envVars >>

\* Variant of AutoModelFail that treats the failed download as fatal instead
\* of falling back to the manual upload.
AutoModelFail_Fatal ==
    /\ autoPc = "awaitModel"
    /\ autoPc' = "done"
    /\ timer' = IF timer = "armed" THEN "cleared" ELSE timer
    /\ status' = "error"
    /\ stepWrites' = << "error" >>
    /\ errorMessage' = "model_unreachable"
    /\ autoFailedAfterTimer' = (autoFailedAfterTimer \/ timerFiredPending)
    /\ cleanupRun' = 0
    /\ UNCHANGED classVars
    /\ UNCHANGED obsVars
    /\ UNCHANGED << isStarted, showManualUpload, landmarker, camPending,
                    cameraRequests, enginesCreated, manualWasm, manualModel,
                    manualStarted, tornDown, cleanupError, autoOkBeforeTimer,
                    timerFiredPending >>
    /\ UNCHANGED << frameVars, videoVars, envVars >>

\* lines 70-76: createFromOptions rejected.
AutoModelFail ==
    /\ autoPc = "awaitModel"
    /\ autoPc' = "done"
    /\ timer' = IF timer = "armed" THEN "cleared" ELSE timer
    /\ showManualUpload' = TRUE
    /\ status' = "waiting_for_file"
    /\ stepWrites' = << "waiting_for_file" >>
    /\ errorMessage' = "model_unreachable"
    /\ autoFailedAfterTimer' = (autoFailedAfterTimer \/ timerFiredPending)
    /\ cleanupRun' = 0
    /\ UNCHANGED classVars
    /\ UNCHANGED obsVars
    /\ UNCHANGED << isStarted, landmarker, camPending, cameraRequests,
                    enginesCreated, manualWasm, manualModel, manualStarted,
                    tornDown, cleanupError, autoOkBeforeTimer,
                    timerFiredPending >>
    /\ UNCHANGED << frameVars, videoVars, envVars >>

\* -------------------------------------------------------- handleFileUpload
\* lines 86-93: the change handler of the file input, which is rendered while
\* isStarted && showManualUpload && status !== 'ready' (lines 223, 259).
HandleFileUpload(hasFile) ==
    /\ Mounted
    /\ isStarted /\ showManualUpload /\ status # "ready"
    /\ cleanupRun' = 0
    /\ UNCHANGED classVars
    /\ UNCHANGED obsVars
    /\ IF ~hasFile
       THEN /\ stepWrites' = << >>
            /\ UNCHANGED << status, manualWasm, manualStarted >>
       ELSE /\ manualStarted < MaxManual
            /\ manualStarted' = manualStarted + 1
            /\ status' = "loading_model_manual"
            /\ stepWrites' = << "loading_model_manual" >>
            /\ manualWasm' = manualWasm + 1
    /\ UNCHANGED << errorMessage, landmarker, camPending, cameraRequests,
                    enginesCreated, autoPc, timer, manualModel >>
    /\ UNCHANGED << uiVars, frameVars, videoVars, envVars, histVars >>

\* lines 93-94: FilesetResolver resolved for a manual attempt.
ManualWasmOk ==
    /\ manualWasm > 0
    /\ manualWasm' = manualWasm - 1
    /\ manualModel' = manualModel + 1
    /\ stepWrites' = << >>
    /\ cleanupRun' = 0
    /\ UNCHANGED classVars
    /\ UNCHANGED obsVars
    /\ UNCHANGED << status, errorMessage, landmarker, camPending,
                    cameraRequests, enginesCreated, autoPc, timer,
                    manualStarted >>
    /\ UNCHANGED << uiVars, frameVars, videoVars, envVars, histVars >>

\* lines 105-108, reached from either await of the manual attempt.
ManualFail(stage) ==
    /\ IF stage = "wasm"
       THEN /\ manualWasm > 0
            /\ manualWasm' = manualWasm - 1
            /\ UNCHANGED manualModel
       ELSE /\ manualModel > 0
            /\ manualModel' = manualModel - 1
            /\ UNCHANGED manualWasm
    /\ status' = "error"
    /\ stepWrites' = << "error" >>
    /\ errorMessage' = "file_invalid"
    /\ cleanupRun' = 0
    /\ UNCHANGED classVars
    /\ UNCHANGED obsVars
    /\ UNCHANGED << landmarker, camPending, cameraRequests, enginesCreated,
                    autoPc, timer, manualStarted >>
    /\ UNCHANGED << uiVars, frameVars, videoVars, envVars, histVars >>

\* Variant of the manual success that forgets to store the handle (line 102).
ManualModelOk_NoStore ==
    /\ manualModel > 0
    /\ manualModel' = manualModel - 1
    /\ landmarker' = landmarker
    /\ enginesCreated' = enginesCreated + 1
    /\ showManualUpload' = FALSE
    /\ StartCamera(<< >>)
    /\ cleanupRun' = 0
    /\ UNCHANGED classVars
    /\ UNCHANGED obsVars
    /\ UNCHANGED << isStarted, autoPc, timer, manualWasm, manualStarted >>
    /\ UNCHANGED << frameVars, videoVars, envVars, histVars >>

\* lines 94-104: createFromOptions resolved for a manual attempt.
ManualModelOk ==
    /\ manualModel > 0
    /\ manualModel' = manualModel - 1
    /\ landmarker' = "manual"
    /\ enginesCreated' = enginesCreated + 1
    /\ showManualUpload' = FALSE
    /\ StartCamera(<< >>)
    /\ cleanupRun' = 0
    /\ UNCHANGED classVars
    /\ UNCHANGED obsVars
    /\ UNCHANGED << isStarted, autoPc, timer, manualWasm, manualStarted >>
    /\ UNCHANGED << frameVars, videoVars, envVars, histVars >>

\* ----------------------------------------------------------- predictWebcam
\* The frame-loop fields predictWebcam reads and writes.
Frame == [ last |-> lastVideoTime, cnt |-> inferCount, obs |-> observed,
           dup |-> dupObserved, st |-> stalled, pRef |-> pendingRef,
           pOther |-> pendingOther ]

SetFrame(f) ==
    /\ lastVideoTime' = f.last
    /\ inferCount' = f.cnt
    /\ observed' = f.obs
    /\ dupObserved' = f.dup
    /\ stalled' = f.st
    /\ pendingRef' = f.pRef
    /\ pendingOther' = f.pOther

Bump(n) == IF n < MaxCount THEN n + 1 ELSE n

BumpStall(n) == IF n < MaxStall THEN n + 1 ELSE n

\* Variant of predictWebcam that forgets to record the timestamp (line 146).
PredictWebcam_NoRecord(f) ==
    IF landmarker = "null" \/ ~videoRefCurrent
    THEN f
    ELSE LET g == IF f.last # currentTime
                  THEN [f EXCEPT !.st = 0, !.cnt[currentTime] = Bump(@),
                                 !.obs = @ \cup {currentTime}]
                  ELSE [f EXCEPT !.obs = @ \cup {currentTime}, !.dup = TRUE,
                                 !.st = BumpStall(@)]
         IN [g EXCEPT !.pOther = @ + (IF g.pRef THEN 1 ELSE 0),
                      !.pRef = TRUE]

\* Variant of predictWebcam that returns without rescheduling when the
\* timestamp has not advanced.
PredictWebcam_NoReschedule(f) ==
    IF landmarker = "null" \/ ~videoRefCurrent
    THEN f
    ELSE IF f.last # currentTime
         THEN LET g == [f EXCEPT !.last = currentTime, !.st = 0,
                                 !.cnt[currentTime] = Bump(@),
                                 !.obs = @ \cup {currentTime}]
              IN [g EXCEPT !.pOther = @ + (IF g.pRef THEN 1 ELSE 0),
                           !.pRef = TRUE]
         ELSE [f EXCEPT !.obs = @ \cup {currentTime}, !.dup = TRUE,
                        !.st = BumpStall(@)]

\* lines 142-153, one call.  A new requestAnimationFrame id replaces the one
\* in requestRef; a callback still scheduled under the old id stays
\* scheduled.
PredictWebcam(f) ==
    IF landmarker = "null" \/ ~videoRefCurrent
    THEN f
    ELSE LET g == IF f.last # currentTime
                  THEN [f EXCEPT !.last = currentTime, !.st = 0,
                                 !.cnt[currentTime] = Bump(@),
                                 !.obs = @ \cup {currentTime}]
                  ELSE [f EXCEPT !.obs = @ \cup {currentTime}, !.dup = TRUE,
                                 !.st = BumpStall(@)]
         IN [g EXCEPT !.pOther = @ + (IF g.pRef THEN 1 ELSE 0),
                      !.pRef = TRUE]

RECURSIVE PredictTimes(_, _)
PredictTimes(n, f) == IF n = 0 THEN f ELSE PredictTimes(n - 1, PredictWebcam(f))

\* An animation-frame callback runs: the one whose id requestRef holds, or
\* an older one.
Tick(which) ==
    /\ IF which = "ref"
       THEN /\ pendingRef
            /\ SetFrame(PredictWebcam([Frame EXCEPT !.pRef = FALSE]))
       ELSE /\ pendingOther > 0
            /\ SetFrame(PredictWebcam([Frame EXCEPT !.pOther = @ - 1]))
    /\ stepWrites' = << >>
    /\ cleanupRun' = 0
    /\ UNCHANGED classVars
    /\ UNCHANGED obsVars
    /\ UNCHANGED << status, errorMessage, landmarker, camPending,
                    cameraRequests, enginesCreated >>
    /\ UNCHANGED << uiVars, videoVars, envVars, loadVars, histVars >>

\* ------------------------------------------------------------- startCamera
\* lines 120-134: getUserMedia resolved.
CameraGrant ==
    /\ camPending > 0
    /\ camPending' = camPending - 1
    /\ streamsAcquired' = streamsAcquired + 1
    /\ IF videoRefCurrent
       THEN /\ srcObject' = "live"
            /\ orphanLive' = orphanLive + (IF srcObject = "live" THEN 1 ELSE 0)
            /\ listeners' = listeners + 1
            /\ dataPending' = TRUE
       ELSE /\ orphanLive' = orphanLive + 1
            /\ UNCHANGED << srcObject, listeners, dataPending >>
    /\ stepWrites' = << >>
    /\ cleanupRun' = 0
    /\ UNCHANGED classVars
    /\ UNCHANGED obsVars
    /\ UNCHANGED << status, errorMessage, landmarker, cameraRequests,
                    enginesCreated >>
    /\ UNCHANGED << uiVars, frameVars, envVars, loadVars, histVars >>

\* lines 135-139: getUserMedia rejected.
CameraDeny ==
    /\ camPending > 0
    /\ camPending' = camPending - 1
    /\ status' = "error"
    /\ stepWrites' = << "error" >>
    /\ errorMessage' = "camera_denied"
    /\ cleanupRun' = 0
    /\ UNCHANGED classVars
    /\ cameraDenied' = TRUE
    /\ UNCHANGED autoAttempts
    /\ UNCHANGED << landmarker, cameraRequests, enginesCreated >>
    /\ UNCHANGED << uiVars, frameVars, videoVars, envVars, loadVars, histVars >>

\* lines 130-133: the element fires loadeddata for its current stream and
\* every registered listener runs.
LoadedData ==
    /\ dataPending
    /\ listeners > 0
    /\ dataPending' = FALSE
    /\ status' = "ready"
    /\ stepWrites' = [i \in 1 .. listeners |-> "ready"]
    /\ SetFrame(PredictTimes(listeners, Frame))
    /\ cleanupRun' = 0
    /\ UNCHANGED classVars
    /\ UNCHANGED obsVars
    /\ UNCHANGED << errorMessage, landmarker, camPending, cameraRequests,
                    enginesCreated, srcObject, listeners, orphanLive,
                    streamsAcquired >>
    /\ UNCHANGED << uiVars, envVars, loadVars, histVars >>

\* The playing stream delivers a new frame.
VideoAdvance ==
    /\ srcObject = "live"
    /\ currentTime < MaxTime
    /\ currentTime' = currentTime + 1
    /\ stepWrites' = << >>
    /\ cleanupRun' = 0
    /\ UNCHANGED classVars
    /\ UNCHANGED obsVars
    /\ UNCHANGED << status, errorMessage, landmarker, camPending,
                    cameraRequests, enginesCreated, videoRefCurrent,
                    mediaSupported >>
    /\ UNCHANGED << uiVars, frameVars, videoVars, loadVars, histVars >>

\* ----------------------------------------------------------------- cleanup
\* Variant of the track release without the null guards of line 205:
\* getTracks() on a missing element or stream throws.
StopTracks_NoGuard(ref, src) ==
    IF ref /\ src # "none"
    THEN [ src |-> "stopped", threw |-> FALSE ]
    ELSE [ src |-> src, threw |-> TRUE ]

\* lines 205-207: stop the tracks of the stream the video element holds, if
\* there is a video element and it holds one.
StopTracks(ref, src) ==
    IF ref /\ src # "none"
    THEN [ src |-> "stopped", threw |-> FALSE ]
    ELSE [ src |-> src, threw |-> FALSE ]

\* lines 203-208: the effect cleanup.
Cleanup ==
    /\ cleanupRun < MaxTeardown
    /\ cleanupRun' = cleanupRun + 1
    /\ UNCHANGED classVars
    /\ UNCHANGED obsVars
    /\ tornDown' = TRUE
    /\ pendingRef' = FALSE
    /\ LET r == StopTracks(videoRefCurrent, srcObject)
       IN /\ srcObject' = r.src
          /\ cleanupError' = (cleanupError \/ r.threw)
    /\ stepWrites' = << >>
    /\ UNCHANGED << status, errorMessage, landmarker, camPending,
                    cameraRequests, enginesCreated, lastVideoTime,
                    pendingOther, inferCount, observed, dupObserved, stalled,
                    listeners, dataPending, orphanLive, streamsAcquired,
                    autoOkBeforeTimer, timerFiredPending,
                    autoFailedAfterTimer >>
    /\ UNCHANGED << uiVars, envVars, loadVars >>

\* line 215: on unmount React sets videoRef.current to null, before or
\* after the cleanup runs.
DetachRef ==
    /\ videoRefCurrent
    /\ videoRefCurrent' = FALSE
    /\ stepWrites' = << >>
    /\ cleanupRun' = 0
    /\ UNCHANGED classVars
    /\ UNCHANGED obsVars
    /\ UNCHANGED << status, errorMessage, landmarker, camPending,
                    cameraRequests, enginesCreated, mediaSupported,
                    currentTime >>
    /\ UNCHANGED << uiVars, frameVars, videoVars, loadVars, histVars >>

\* --------------------------------------------------------- processLandmarks
\* Coordinates, distances and rotations are fixed-point numbers in
\* thousandths: 250 is 0.25.  The inputs are multiples of 0.25, which IEEE
\* doubles hold exactly, so the boundary case is the same in both.

\* 0.25, the fist threshold of line 177
FistThreshold == 250
\* 0.5, the centre of lines 181-182
Centre == 500
\* the factors of lines 181 and 182
RotScaleX == 4
RotScaleY == 2
\* 1, the pinch distance of the absent signal (line 195)
AbsentPinch == 1000

\* landmark indices the code reads: wrist, thumb tip and the four fingertips
WRIST == 0
THUMB_TIP == 4
INDEX_TIP == 8
TipIndices == << 8, 12, 16, 20 >>

RECURSIVE SqrtSearch(_, _, _)
\* the largest r in lo..hi with r * r <= n
SqrtSearch(n, lo, hi) ==
    IF lo = hi
    THEN lo
    ELSE LET mid == (lo + hi + 1) \div 2
         IN IF mid * mid <= n
            THEN SqrtSearch(n, mid, hi)
            ELSE SqrtSearch(n, lo, mid - 1)

\* Math.sqrt on fixed-point values, rounded down (46340 is the largest root
\* whose square fits the checker's integers)
Sqrt(n) == SqrtSearch(n, 0, IF n < 46340 THEN n ELSE 46340)

Sq(a) == a * a

\* lines 161-165: distance in x, y and z
Dist3(p, q) == Sqrt(Sq(p.x - q.x) + Sq(p.y - q.y) + Sq(p.z - q.z))

\* lines 171-174: distance in x and y only
Dist2(p, q) == Sqrt(Sq(p.x - q.x) + Sq(p.y - q.y))

\* lines 159-167: the mean of the four wrist-to-fingertip distances
AvgDist(lm) ==
    ( Dist3(lm[TipIndices[1]], lm[WRIST]) + Dist3(lm[TipIndices[2]], lm[WRIST])
      + Dist3(lm[TipIndices[3]], lm[WRIST]) + Dist3(lm[TipIndices[4]], lm[WRIST]) )
      \div Len(TipIndices)

\* Variant of the classifier with a non-strict comparison at line 177.
Classify_NonStrict(res) ==
    IF Len(res.landmarks) > 0
    THEN LET lm == res.landmarks[1]
         IN [ gesture |-> IF AvgDist(lm) <= FistThreshold
                          THEN "CLOSED_FIST" ELSE "OPEN_PALM",
              rotX |-> (lm[WRIST].x - Centre) * RotScaleX,
              rotY |-> (lm[WRIST].y - Centre) * RotScaleY,
              pinchDistance |-> Dist2(lm[THUMB_TIP], lm[INDEX_TIP]),
              isPresent |-> TRUE ]
    ELSE [ gesture |-> "NONE", rotX |-> 0, rotY |-> 0,
           pinchDistance |-> AbsentPinch, isPresent |-> FALSE ]

\* Variant of the classifier that repeats the last signal when no hand is
\* detected.
Classify_KeepLast(res) ==
    IF Len(res.landmarks) > 0
    THEN LET lm == res.landmarks[1]
         IN [ gesture |-> IF AvgDist(lm) < FistThreshold
                          THEN "CLOSED_FIST" ELSE "OPEN_PALM",
              rotX |-> (lm[WRIST].x - Centre) * RotScaleX,
              rotY |-> (lm[WRIST].y - Centre) * RotScaleY,
              pinchDistance |-> Dist2(lm[THUMB_TIP], lm[INDEX_TIP]),
              isPresent |-> TRUE ]
    ELSE IF signal.isPresent
         THEN [signal EXCEPT !.isPresent = FALSE]
         ELSE [ gesture |-> "NONE", rotX |-> 0, rotY |-> 0,
                pinchDistance |-> AbsentPinch, isPresent |-> FALSE ]

\* Variant of the classifier that takes the rotation from the index
\* fingertip instead of the wrist.
Classify_RotFromTip(res) ==
    IF Len(res.landmarks) > 0
    THEN LET lm == res.landmarks[1]
         IN [ gesture |-> IF AvgDist(lm) < FistThreshold
                          THEN "CLOSED_FIST" ELSE "OPEN_PALM",
              rotX |-> (lm[INDEX_TIP].x - Centre) * RotScaleX,
              rotY |-> (lm[INDEX_TIP].y - Centre) * RotScaleY,
              pinchDistance |-> Dist2(lm[THUMB_TIP], lm[INDEX_TIP]),
              isPresent |-> TRUE ]
    ELSE [ gesture |-> "NONE", rotX |-> 0, rotY |-> 0,
           pinchDistance |-> AbsentPinch, isPresent |-> FALSE ]

\* lines 155-199: the HandState processLandmarks passes to onUpdate.
Classify(res) ==
    IF Len(res.landmarks) > 0
    THEN LET lm == res.landmarks[1]
         IN [ gesture |-> IF AvgDist(lm) < FistThreshold
                          THEN "CLOSED_FIST" ELSE "OPEN_PALM",
              rotX |-> (lm[WRIST].x - Centre) * RotScaleX,
              rotY |-> (lm[WRIST].y - Centre) * RotScaleY,
              pinchDistance |-> Dist2(lm[THUMB_TIP], lm[INDEX_TIP]),
              isPresent |-> TRUE ]
    ELSE [ gesture |-> "NONE", rotX |-> 0, rotY |-> 0,
           pinchDistance |-> AbsentPinch, isPresent |-> FALSE ]

\* ---- the detection results the classifier is applied to
Point(a, b, c) == [x |-> a, y |-> b, z |-> c]

Shift(p, d) == [x |-> p.x + d.x, y |-> p.y + d.y, z |-> p.z + d.z]

\* wrist positions: two corners and the centre of the frame at two depths,
\* an off-diagonal corner and an off-centre point
WristPoints ==
    { Point(xy[1], xy[2], zz) :
        xy \in { <<0, 0>>, <<500, 500>>, <<1000, 1000>> }, zz \in {0, 250} }
    \cup { Point(0, 1000, 0), Point(250, 750, 250) }

\* fingertip positions relative to the wrist: on it, 0.25 away, about 0.354 away
NearOffsets == { Point(0, 0, 0), Point(250, 0, 0) }
TipOffsets == NearOffsets \cup { Point(0, 250, 250) }

\* thumb-tip positions relative to the index fingertip: touching (at another
\* depth) and 1.25 away in the plane
ThumbOffsets == { Point(0, 0, 250), Point(750, 1000, 0) }

Hand(w, o8, o12, o16, o20, ot) ==
    ( WRIST :> w ) @@ ( 8 :> Shift(w, o8) ) @@ ( 12 :> Shift(w, o12) )
      @@ ( 16 :> Shift(w, o16) ) @@ ( 20 :> Shift(w, o20) )
      @@ ( THUMB_TIP :> Shift(Shift(w, o8), ot) )

Hands ==
    { Hand(w, o8, o12, o16, o20, ot) :
        w \in WristPoints, o8 \in TipOffsets, o12 \in NearOffsets,
        o16 \in NearOffsets, o20 \in NearOffsets, ot \in ThumbOffsets }

\* single-hand mode (numHands: 1): no landmark set or one
Results == { [landmarks |-> << >>] } \cup { [landmarks |-> << h >>] : h \in Hands }

\* lines 155-199: processLandmarks on one detection result.
ProcessLandmarks(res) ==
    /\ result' = res
    /\ signal' = Classify(res)
    /\ seenPresent' = (seenPresent \/ Len(result.landmarks) > 0)
    /\ UNCHANGED loopVars

NextClassify == \E res \in Results : ProcessLandmarks(res)

\* the classifier does not read the environment: one environment suffices
InitClassify == Init /\ mediaSupported

SpecClassify == InitClassify /\ [][NextClassify]_vars

Next ==
    \/ StartExperience
    \/ WasmOk
    \/ WasmFail
    \/ TimerFire
    \/ AutoModelOk
    \/ AutoModelFail
    \/ \E hasFile \in BOOLEAN : HandleFileUpload(hasFile)
    \/ ManualWasmOk
    \/ \E stage \in {"wasm", "model"} : ManualFail(stage)
    \/ ManualModelOk
    \/ \E which \in {"ref", "other"} : Tick(which)
    \/ CameraGrant
    \/ CameraDeny
    \/ LoadedData
    \/ VideoAdvance
    \/ Cleanup
    \/ DetachRef

Spec == Init /\ [][Next]_vars

TypeOK ==
    /\ status \in Statuses
    /\ landmarker \in {"null", "auto", "manual"}
    /\ srcObject \in {"none", "live", "stopped"}
    /\ lastVideoTime \in {-1} \cup Times
    /\ currentTime \in Times

\* ------------------------------------------------------------ observations
\* camera streams whose tracks are running
LiveStreams == orphanLive + (IF srcObject = "live" THEN 1 ELSE 0)

\* animation-frame callbacks scheduled
PendingCallbacks == pendingOther + (IF pendingRef THEN 1 ELSE 0)

\* position of a status on the lifecycle of the specification
Rank(s) ==
    CASE s = "" -> 0
      [] s = "initializing" -> 1
      [] s = "loading_wasm" -> 2
      [] s = "loading_model" -> 3
      [] s = "waiting_for_file" -> 4
      [] s = "loading_model_manual" -> 5
      [] s = "requesting_camera" -> 6
      [] s = "ready" -> 7
      [] OTHER -> 8

\* engine instances created and not released: the source never calls close()
EnginesUnreleased == enginesCreated

\* the program state the cleanup may touch, without the observation variables
ProgramState ==
    << isStarted, status, errorMessage, showManualUpload, videoRefCurrent,
       lastVideoTime, pendingRef, pendingOther, landmarker, srcObject,
       listeners, dataPending, currentTime, orphanLive, autoPc, timer,
       manualWasm, manualModel, camPending >>

\* ------------------------------------------------------------------ claims

\* C1: the status only moves forward along idle, initializing,
\* loading_wasm, loading_model, waiting_for_file, loading_model_manual,
\* requesting_camera, ready; a continuation resolving late never moves it
\* back.
C1_StatusMonotonic ==
    [][ (status # "error" /\ status' # "error")
          => Rank(status') >= Rank(status) ]_vars

\* C2: once the status is error it stays error.
C2_ErrorTerminal ==
    [][ status = "error" => status' = "error" ]_vars

\* C3: at most one camera request is issued, at most one stream is acquired
\* and at most one frame loop is started in a session.
C3_SingleCameraAndLoop ==
    /\ cameraRequests <= 1
    /\ streamsAcquired <= 1
    /\ listeners <= 1
    /\ PendingCallbacks <= 1

\* C4: a step that invokes inference on a frame leaves the status ready.
C4_InferenceOnlyWhenReady ==
    [][ inferCount' # inferCount => status' = "ready" ]_vars

\* C5: every timestamp a tick has observed was inferred on exactly once, and
\* no timestamp was inferred on twice.
C5_OncePerTimestamp ==
    \A t \in Times :
        /\ inferCount[t] <= 1
        /\ (t \in observed => inferCount[t] = 1)

\* C5 witness: two distinct timestamps were processed and some tick read a
\* timestamp that an earlier tick had already recorded.
C5_Witness ==
    /\ {0, 1} \subseteq observed
    /\ dupObserved
    /\ lastVideoTime = 1

\* C6: the cleanup never throws; a cleanup that directly follows a cleanup
\* changes nothing; a cleanup with no stream acquired and no frame callback
\* scheduled changes nothing.
C6_TeardownIdempotent ==
    [][ (cleanupRun' = cleanupRun + 1) =>
          /\ ~cleanupError'
          /\ (cleanupRun >= 1 => ProgramState' = ProgramState)
          /\ ((streamsAcquired = 0 /\ PendingCallbacks = 0)
                => ProgramState' = ProgramState) ]_vars

\* C6 witness: two cleanups ran in succession after a stream was attached,
\* and its tracks are stopped.
C6_Witness ==
    /\ cleanupRun >= 2
    /\ srcObject = "stopped"
    /\ streamsAcquired >= 1

C9_ScenarioA ==
    [][ /\ (autoOkBeforeTimer' /\ ~autoOkBeforeTimer) =>
              /\ timer' = "cleared"
              /\ Len(stepWrites') >= 1
              /\ stepWrites'[1] = "requesting_camera"
              /\ (mediaSupported =>
                    /\ status' = "requesting_camera"
                    /\ cameraRequests' = cameraRequests + 1)
        /\ autoOkBeforeTimer' => (~showManualUpload' /\ timer' = "cleared")
      ]_vars

\* C9 witness: the automatic load beat the timer and the session went on to
\* stream frames.
C9_Witness ==
    /\ autoOkBeforeTimer
    /\ status = "ready"
    /\ inferCount[0] = 1

\* C10: the timer firing while the automatic creation is pending shows the
\* manual upload; the automatic creation failing after that sets
\* waiting_for_file and a non-empty message; and after that, the loadeddata
\* of a stream (which only a successful manual selection can have requested)
\* sets ready.
C10_ScenarioB ==
    [][ /\ (timer = "armed" /\ timer' = "fired" /\ autoPc = "awaitModel")
              => showManualUpload'
        /\ (autoFailedAfterTimer' /\ ~autoFailedAfterTimer) =>
              /\ status' = "waiting_for_file"
              /\ errorMessage' # ""
              /\ showManualUpload'
        /\ (autoFailedAfterTimer /\ dataPending /\ ~dataPending')
              => (status' = "ready" /\ landmarker = "manual")
      ]_vars

\* C10 witness: the timer fired, the automatic load failed, a manually
\* selected file loaded and the camera delivered data.
C10_Witness ==
    /\ autoFailedAfterTimer
    /\ landmarker = "manual"
    /\ status = "ready"
    /\ srcObject = "live"

\* C11: the step in which a camera request is denied sets error with the
\* permission message, and from then on no step invokes inference or
\* schedules a further frame callback.
C11_ScenarioC ==
    [][ /\ (cameraDenied' /\ ~cameraDenied) =>
              (status' = "error" /\ errorMessage' = "camera_denied")
        /\ cameraDenied =>
              /\ inferCount' = inferCount
              /\ PendingCallbacks' <= PendingCallbacks
      ]_vars

\* C12: after the runtime failed to resolve, the status is error, no engine
\* creation was attempted on either path, the timer was never started, the
\* manual upload is not shown and no camera request was issued.
C12_RuntimeFailureFatal ==
    (autoPc = "done" /\ autoAttempts = 0) =>
        /\ status = "error"
        /\ errorMessage = "init_failed"
        /\ timer = "unset"
        /\ ~showManualUpload
        /\ manualStarted = 0
        /\ enginesCreated = 0
        /\ landmarker = "null"
        /\ cameraRequests = 0

\* C12 witness: the runtime failed and the component was later torn down.
C12_Witness ==
    /\ autoPc = "done"
    /\ autoAttempts = 0
    /\ status = "error"
    /\ tornDown

\* C16: the timeout callback leaves the automatic attempt pending and
\* touches neither status nor handle; when the attempt succeeds after the
\* timer fired and no file was selected, the handle is stored and the first
\* status write is requesting_camera (with the request issued in a
\* camera-capable environment); the loadeddata that follows sets ready.
C16_TimerAdvisory ==
    [][ /\ (timer = "armed" /\ timer' = "fired") =>
              /\ autoPc' = autoPc
              /\ showManualUpload'
              /\ status' = status
              /\ landmarker' = landmarker
        /\ ( /\ timerFiredPending /\ manualStarted = 0
             /\ autoPc = "awaitModel" /\ autoPc' = "done"
             /\ enginesCreated' = enginesCreated + 1 ) =>
              /\ landmarker' = "auto"
              /\ Len(stepWrites') >= 1
              /\ stepWrites'[1] = "requesting_camera"
              /\ (mediaSupported =>
                    /\ status' = "requesting_camera"
                    /\ camPending' = camPending + 1)
        /\ ( /\ timerFiredPending /\ manualStarted = 0
             /\ dataPending /\ ~dataPending' ) =>
              (status' = "ready" /\ landmarker = "auto")
      ]_vars

\* C16 witness: the timer fired first, the automatic attempt succeeded
\* later, no file was selected and the camera delivered data.
C16_Witness ==
    /\ timerFiredPending
    /\ manualStarted = 0
    /\ landmarker = "auto"
    /\ status = "ready"
    /\ showManualUpload

\* C17: at most one manual engine creation is in flight at a time and the
\* automatic path starts at most one attempt.
C17_OneAttemptPerPath ==
    /\ manualWasm + manualModel <= 1
    /\ autoAttempts <= 1

\* C18: at most one engine instance exists at a time, and none is left
\* unreleased once the cleanup has run.
C18_EngineReleased ==
    /\ EnginesUnreleased <= 1
    /\ (tornDown => EnginesUnreleased = 0)

\* C19: a tick that reads the timestamp already recorded invokes no
\* inference and schedules the next callback; while the handle and the video
\* element exist and the cleanup has not run, a callback stays scheduled
\* through the skipped ticks; and the tick that then reads a new timestamp
\* infers on it once.
C19_StalledTickReschedules ==
    [][ /\ (stalled' = stalled + 1 /\ dataPending' = dataPending) =>
              /\ inferCount' = inferCount
              /\ lastVideoTime' = lastVideoTime
              /\ pendingRef'
              /\ PendingCallbacks' = PendingCallbacks
        /\ ( /\ stalled' >= 1 /\ landmarker' # "null"
             /\ videoRefCurrent' /\ ~tornDown' ) => PendingCallbacks' >= 1
        /\ (stalled >= 1 /\ stalled' = 0) =>
              /\ lastVideoTime' = currentTime
              /\ inferCount'[currentTime] = inferCount[currentTime] + 1
              /\ pendingRef'
      ]_vars

\* C19 witness: a single loop skipped two ticks at timestamp 0 and then
\* processed timestamp 1.
C19_Witness ==
    /\ cameraRequests = 1
    /\ inferCount[0] = 1
    /\ inferCount[1] = 1
    /\ lastVideoTime = 1
    /\ dupObserved
    /\ stalled = 0

\* C20: whenever the status is requesting_camera or ready, a camera request
\* has been issued, or a step invokes inference, the engine handle is
\* non-null; and the handle, once stored, is never reset to null.
C20_HandleBeforeCamera ==
    [][ /\ (status' \in {"requesting_camera", "ready"} => landmarker' # "null")
        /\ (cameraRequests' > 0 => landmarker' # "null")
        /\ (inferCount' # inferCount => landmarker' # "null")
        /\ (landmarker # "null" => landmarker' # "null")
      ]_vars

\* C20 witness: the manual path stored the handle, the camera was requested
\* and frames are processed.
C20_Witness ==
    /\ landmarker = "manual"
    /\ status = "ready"
    /\ inferCount[1] = 1

\* C13: for a present hand the gesture is CLOSED_FIST when the mean
\* wrist-to-fingertip distance is below 0.25 and OPEN_PALM otherwise, also at
\* exactly 0.25; NONE is never emitted for a present hand.
C13_FistThreshold ==
    Len(result.landmarks) > 0 =>
        LET avg == AvgDist(result.landmarks[1])
        IN /\ signal.gesture \in {"CLOSED_FIST", "OPEN_PALM"}
           /\ (avg < 250 => signal.gesture = "CLOSED_FIST")
           /\ (avg >= 250 => signal.gesture = "OPEN_PALM")

\* C13 witness: every fingertip is exactly 0.25 from the wrist and the
\* gesture is OPEN_PALM.
C13_Witness ==
    /\ Len(result.landmarks) > 0
    /\ \A i \in 1 .. 4 :
          Sq(result.landmarks[1][TipIndices[i]].x - result.landmarks[1][0].x) = 62500
    /\ AvgDist(result.landmarks[1]) = 250
    /\ signal.gesture = "OPEN_PALM"

\* C14: after a result without a hand the signal is NONE, rotation (0, 0),
\* pinch distance 1, not present, whatever was processed before.
C14_AbsentSentinel ==
    (Len(result.landmarks) = 0 /\ signal # NoSignal) =>
        signal = [ gesture |-> "NONE", rotX |-> 0, rotY |-> 0,
                   pinchDistance |-> 1000, isPresent |-> FALSE ]

\* C14 witness: a result without a hand was processed after one with a hand.
C14_Witness ==
    /\ Len(result.landmarks) = 0
    /\ seenPresent
    /\ signal.gesture = "NONE"

\* C15: for a present hand the rotation is ((wrist.x - 0.5) * 4,
\* (wrist.y - 0.5) * 2): (0, 0) at the centre, (-2, -1) at (0, 0) and (2, 1)
\* at (1, 1), for every fingertip configuration and wrist depth.
C15_RotationFromWrist ==
    Len(result.landmarks) > 0 =>
        LET w == result.landmarks[1][0]
        IN /\ signal.rotX = (w.x - 500) * 4
           /\ signal.rotY = (w.y - 500) * 2
           /\ ((w.x = 500 /\ w.y = 500) => (signal.rotX = 0 /\ signal.rotY = 0))
           /\ ((w.x = 0 /\ w.y = 0) => (signal.rotX = -2000 /\ signal.rotY = -1000))
           /\ ((w.x = 1000 /\ w.y = 1000) =>
                  (signal.rotX = 2000 /\ signal.rotY = 1000))

\* C15 witness: the wrist is at (0, 0) at depth 0.25 with a fingertip away
\* from it, and the rotation is (-2, -1).
C15_Witness ==
    /\ Len(result.landmarks) > 0
    /\ result.landmarks[1][0] = [x |-> 0, y |-> 0, z |-> 250]
    /\ result.landmarks[1][8] # result.landmarks[1][0]
    /\ signal.rotX = -2000
    /\ signal.rotY = -1000

====
